---------------------------- MODULE Spec2Model ----------------------------
(***************************************************************************)
(* KrusGis-Sentinel: a Flask wrapper around the Earth Engine client.       *)
(* Two variants of the same service are modelled, src/app.py ("app") and   *)
(* src/main.py ("main").  The state is the deployment (which file runs,    *)
(* how, and with which GEE_CREDENTIALS), the process (startup phase, the   *)
(* initializer's return value, the client library's ee.data._initialized   *)
(* flag) and the HTTP exchanges.  What a handler reads from outside the    *)
(* process (the remote service's answers, the wall clock) is an input.     *)
(*                                                                         *)
(* Spec     handles one request at a time: one action per route, each the  *)
(*          whole handler, the remote answers drawn as inputs.             *)
(* SpecConc handles requests on NumWorkers threads, a handler's steps      *)
(*          being separated where it blocks in a remote call.              *)
(***************************************************************************)
EXTENDS Naturals, Sequences, FiniteSets, TLC

VARIABLES
    variant,          \* "app" (src/app.py) or "main" (src/main.py)
    asScript,         \* TRUE: python <file>;  FALSE: imported by a WSGI server
    gee_credentials,  \* kind of the GEE_CREDENTIALS environment variable
    phase,            \* "boot", "serving", "exited"
    initResult,       \* "none" (never called), "ok", "failed"
    ee_initialized,   \* ee.data._initialized
    last,             \* the last completed exchange (Spec)
    workers           \* per-thread handler state (SpecConc)

vars == <<variant, asScript, gee_credentials, phase, initResult,
          ee_initialized, last, workers>>

deployVars == <<variant, asScript, gee_credentials>>
procVars   == <<phase, initResult, ee_initialized>>

-----------------------------------------------------------------------------
(* Bounds *)

MaxClock   == 1
NumWorkers == 2

-----------------------------------------------------------------------------
(* JSON bodies and python dictionaries.  A key is either absent, <<>>, or  *)
(* present with a value, <<v>>.                                            *)

Absent  == <<>>
Some(v) == <<v>>

\* dict.get(key, default)
DictGet(field, default) == IF field = Absent THEN default ELSE field[1]

\* python truthiness of a JSON scalar, written as its JSON text
Truthy(v) == v \notin {"false", "null", "0", "\"\""}

DefaultCloudFilter == 30

\* request.json of a well-formed JSON object
Bodies ==
    [ json         : {TRUE},
      bounds       : {Absent, Some("box"), Some("bad_shape")},
      start_date   : {Absent, Some("2024-05-01")},
      end_date     : {Absent, Some("2024-06-01")},
      cloud_filter : {Absent, Some(10)},
      smoothing    : {Absent, Some("true"), Some("false")},
      layer        : {Absent, Some("TRUE_COLOR"), Some("FALSE_COLOR"),
                      Some("NDVI"), Some("NDWI"), Some("SWIR")} ]

\* a body request.json cannot parse (it raises BadRequest)
NotJson ==
    [ json |-> FALSE, bounds |-> Absent, start_date |-> Absent,
      end_date |-> Absent, cloud_filter |-> Absent, smoothing |-> Absent,
      layer |-> Absent ]

\* GET requests carry no body
NoBody == NotJson

Requests == Bodies \cup {NotJson}

\* a remote call's answer: <<>> when it raises, <<value>> when it returns
MapIdAnswers   == {Absent, Some("mapid-7f3a")}
CountAnswers   == {Absent, Some(0), Some(12)}
RegionsAnswers == {Absent, Some(<<>>), Some(<<"Tyva", "Altai">>)}

-----------------------------------------------------------------------------
(* Exceptions *)

Exc(cls, msg) == [cls |-> cls, msg |-> msg]

\* every class raised here derives from Exception
ExceptionClasses ==
    {"KeyError", "ValueError", "JSONDecodeError", "BadRequest", "EEException"}

\* Catches with a fault: the clause narrowed to KeyError
CatchesOnlyKeyError(clause, e) == clause = "Exception" /\ e.cls = "KeyError"

\* does `except <clause>` catch e
Catches(clause, e) ==
    \/ clause = "Exception" /\ e.cls \in ExceptionClasses
    \/ clause = e.cls

-----------------------------------------------------------------------------
(* Startup: initialize_earth_engine and the module-level code *)

CredentialKinds ==
    { "missing",     \* GEE_CREDENTIALS unset or empty
      "malformed",   \* not JSON
      "no_email",    \* JSON without "client_email"
      "rejected",    \* a well-formed key the remote service rejects
      "valid" }

\* The body of the initializer's try block: the exception it raises, if
\* any, and ee.data._initialized afterwards.  ee.Initialize installs the
\* credentials in the client (setting the flag) and then makes its first
\* remote round trip, which is where a rejection surfaces.
InitTry(creds, flag) ==
    CASE creds = "missing" ->
           [raised |-> Some(Exc("ValueError", "GEE_CREDENTIALS not found")),
            flag |-> flag]
      [] creds = "malformed" ->
           [raised |-> Some(Exc("JSONDecodeError", "Expecting value")),
            flag |-> flag]
      [] creds = "no_email" ->
           [raised |-> Some(Exc("KeyError", "'client_email'")), flag |-> flag]
      [] creds = "rejected" ->
           [raised |-> Some(Exc("EEException", "not authorized")),
            flag |-> TRUE]
      [] OTHER -> [raised |-> Absent, flag |-> TRUE]

\* the except clauses of the initializer, in order
InitClauses(v) ==
    IF v = "main" THEN <<"JSONDecodeError", "Exception">> ELSE <<"Exception">>

\* initialize_earth_engine(): its return value, the flag afterwards and the
\* exception that escapes it, if any
initialize_earth_engine(v, creds, flag) ==
    LET t == InitTry(creds, flag) IN
    IF t.raised = Absent
    THEN [ret |-> Some(TRUE), flag |-> t.flag, escaped |-> Absent]
    ELSE IF \E i \in DOMAIN InitClauses(v) : Catches(InitClauses(v)[i], t.raised[1])
         THEN [ret |-> Some(FALSE), flag |-> t.flag, escaped |-> Absent]
         ELSE [ret |-> Absent, flag |-> t.flag, escaped |-> t.raised]

Outcome(r) == IF r.ret = Some(TRUE) THEN "ok" ELSE "failed"

\* src/app.py at module level: the initializer runs on import, whatever it
\* returns the application is served (app.run as a script, the WSGI server
\* otherwise)
app_module ==
    /\ variant = "app"
    /\ phase = "boot"
    /\ LET r == initialize_earth_engine(variant, gee_credentials, ee_initialized) IN
       /\ ee_initialized' = r.flag
       /\ initResult' = Outcome(r)
       /\ phase' = IF r.escaped = Absent THEN "serving" ELSE "crashed"
    /\ UNCHANGED <<deployVars, last, workers>>

\* main_module with a fault: app.run outside the if
MainServesRegardless ==
    /\ variant = "main"
    /\ phase = "boot"
    /\ IF asScript
       THEN LET r == initialize_earth_engine(variant, gee_credentials, ee_initialized) IN
            /\ ee_initialized' = r.flag
            /\ initResult' = Outcome(r)
            /\ phase' = "serving"
       ELSE /\ phase' = "serving"
            /\ UNCHANGED <<ee_initialized, initResult>>
    /\ UNCHANGED <<deployVars, last, workers>>

\* src/main.py at module level: the initializer runs only under __main__,
\* and app.run only when it returned True; imported by a WSGI server the
\* application is served without the initializer having run
main_module ==
    /\ variant = "main"
    /\ phase = "boot"
    /\ IF asScript
       THEN LET r == initialize_earth_engine(variant, gee_credentials, ee_initialized) IN
            /\ ee_initialized' = r.flag
            /\ initResult' = Outcome(r)
            /\ phase' = IF r.escaped # Absent THEN "crashed"
                        ELSE IF r.ret = Some(TRUE) THEN "serving" ELSE "exited"
       ELSE /\ phase' = "serving"
            /\ UNCHANGED <<ee_initialized, initResult>>
    /\ UNCHANGED <<deployVars, last, workers>>

\* Whether calls into the client library can succeed: the client is
\* initialized and the service accepts the credentials it holds.
SessionReady(flag, creds) == flag /\ creds = "valid"

-----------------------------------------------------------------------------
(* POST /api/get_sentinel_image *)

TRUE_COLOR ==
    [bands |-> <<"B4", "B3", "B2">>, min |-> "0,0,0", max |-> "3000,3000,3000",
     description |-> "RGB"]

\* app.py's lookup table; a configuration has a palette key or none
band_configs ==
    ( "TRUE_COLOR"  :> TRUE_COLOR ) @@
    ( "FALSE_COLOR" :> [bands |-> <<"B8", "B4", "B3">>, min |-> "0,0,0",
                        max |-> "3000,3000,3000", description |-> "false color"] ) @@
    ( "NDVI"        :> [bands |-> <<"NDVI">>, min |-> "-1", max |-> "1",
                        palette |-> <<"red", "yellow", "green">>,
                        description |-> "NDVI"] ) @@
    ( "NDWI"        :> [bands |-> <<"NDWI">>, min |-> "-1", max |-> "1",
                        palette |-> <<"white", "blue">>,
                        description |-> "NDWI"] )

\* ConfigFor with a fault: the wrong default configuration
ConfigNdviForUnknown(layer_type) ==
    IF layer_type \in DOMAIN band_configs THEN band_configs[layer_type]
    ELSE band_configs["NDVI"]

\* band_configs.get(layer_type, band_configs['TRUE_COLOR'])
ConfigFor(layer_type) ==
    IF layer_type \in DOMAIN band_configs THEN band_configs[layer_type]
    ELSE band_configs["TRUE_COLOR"]

\* IndexMaps with a fault: the two band-math transforms exchanged
IndexMapsSwapped(layer_type) ==
    IF layer_type = "NDVI" THEN <<"calculate_ndwi">>
    ELSE IF layer_type = "NDWI" THEN <<"calculate_ndvi">>
    ELSE <<>>

\* the band-math transform mapped over the collection, by layer type
IndexMaps(layer_type) ==
    IF layer_type = "NDVI" THEN <<"calculate_ndvi">>
    ELSE IF layer_type = "NDWI" THEN <<"calculate_ndwi">>
    ELSE <<>>

\* the cloud mask is mapped over the collection when smoothing is truthy
SmoothingMaps(enable_smoothing) ==
    IF Truthy(enable_smoothing) THEN <<"mask_clouds">> ELSE <<>>

\* the bands of a COPERNICUS/S2_SR_HARMONIZED image the handlers name
SourceBands == {"B2", "B3", "B4", "B8", "SCL"}

\* the band a mapped transform adds to each image (calculate_ndvi,
\* calculate_ndwi: addBands of the renamed normalized difference; mask_clouds
\* adds none)
AddedBands(transform) ==
    CASE transform = "calculate_ndvi" -> {"NDVI"}
      [] transform = "calculate_ndwi" -> {"NDWI"}
      [] OTHER -> {}

ImageCollection(geometry, start_date, end_date, cloud_filter, maps) ==
    [ id |-> "COPERNICUS/S2_SR_HARMONIZED",
      filterDate |-> <<start_date, end_date>>,
      filterBounds |-> geometry,
      cloudy_lt |-> cloud_filter,
      maps |-> maps ]

\* the dictionary handed to ee.data.getMapId
VisParams(config, collection, geometry) ==
    IF "palette" \in DOMAIN config
    THEN [ image |-> [median |-> collection], bands |-> config.bands,
           min |-> config.min, max |-> config.max, region |-> geometry,
           palette |-> config.palette ]
    ELSE [ image |-> [median |-> collection], bands |-> config.bands,
           min |-> config.min, max |-> config.max, region |-> geometry ]

Raised(e) == [raised |-> Some(e)]

\* The handler up to its first remote call: the fields read from the body,
\* the collection and the visualization parameters built locally; or the
\* exception raised on the way.  ready: SessionReady.
ImageLocal(v, ready, body) ==
    IF ~body.json THEN Raised(Exc("BadRequest", "Failed to decode JSON object"))
    ELSE IF body.bounds = Absent THEN Raised(Exc("KeyError", "'bounds'"))
    ELSE IF body.bounds[1] # "box"
         THEN Raised(Exc("EEException", "Rectangle requires 2 points or 4 coordinates"))
    ELSE IF ~ready
         THEN Raised(Exc("EEException", "Earth Engine client library not initialized"))
    ELSE IF body.start_date = Absent THEN Raised(Exc("KeyError", "'start_date'"))
    ELSE IF body.end_date = Absent THEN Raised(Exc("KeyError", "'end_date'"))
    ELSE
      LET geometry         == [rectangle |-> body.bounds[1]]
          cloud_filter     == DictGet(body.cloud_filter, DefaultCloudFilter)
          enable_smoothing == DictGet(body.smoothing, "true")
          layer_type       == DictGet(body.layer, "TRUE_COLOR")
          config           == IF v = "app" THEN ConfigFor(layer_type) ELSE TRUE_COLOR
          maps             == (IF v = "app" THEN IndexMaps(layer_type) ELSE <<>>)
                              \o SmoothingMaps(enable_smoothing)
          collection       == ImageCollection(geometry, body.start_date[1],
                                  body.end_date[1], cloud_filter, maps)
      IN [ raised |-> Absent, layer_type |-> layer_type, config |-> config,
           collection |-> collection,
           vis_params |-> VisParams(config, collection, geometry) ]

\* TileUrl with a fault: single braces, which an f-string does not keep
TileUrlSingleBraces(map_id) ==
    <<"https://earthengine.googleapis.com/v1/maps/", map_id, "/tiles/">>

\* the f-string of the tile URL, as its pieces: {{z}} is the text {z}
TileUrl(map_id) ==
    <<"https://earthengine.googleapis.com/v1/maps/", map_id, "/tiles/",
      "{z}", "/", "{x}", "/", "{y}">>

\* jsonify of the success body; app.py adds layer_info
ImageSuccess(v, loc, tile_url, image_count) ==
    IF v = "app"
    THEN [ status |-> 200,
           body |-> [ success |-> TRUE, tile_url |-> tile_url,
                      image_count |-> image_count,
                      layer_info |-> [type |-> loc.layer_type,
                                      description |-> loc.config.description] ] ]
    ELSE [ status |-> 200,
           body |-> [ success |-> TRUE, tile_url |-> tile_url,
                      image_count |-> image_count ] ]

\* the except branch: jsonify(success False, error str(e)), 500
ImageError(e) ==
    [ status |-> 500, body |-> [success |-> FALSE, error |-> e.msg] ]

RemoteError(op) == Exc("EEException", op \o " failed")

Call(op, args, answer) == [op |-> op, args |-> args, answer |-> answer]

\* ee.data.getMapId(...) and tile_info["mapid"]: the call made, and the tile
\* URL built from its answer or the exception it raises
MapIdStep(loc, mapAns) ==
    LET c1 == Call("getMapId", loc.vis_params, mapAns) IN
    IF mapAns = Absent
    THEN [calls |-> <<c1>>, tile_url |-> Absent,
          raised |-> Some(RemoteError("getMapId"))]
    ELSE [calls |-> <<c1>>, tile_url |-> Some(TileUrl(mapAns[1])),
          raised |-> Absent]

\* collection.size().getInfo() and the success response
CountStep(v, loc, tile_url, calls, cntAns) ==
    LET c2 == Call("size.getInfo", loc.collection, cntAns) IN
    IF cntAns = Absent
    THEN [calls |-> Append(calls, c2), resp |-> Absent,
          raised |-> Some(RemoteError("getInfo"))]
    ELSE [calls |-> Append(calls, c2),
          resp |-> Some(ImageSuccess(v, loc, tile_url, cntAns[1])),
          raised |-> Absent]

\* ImageTry with a fault: the count query made first and its failure ignored
CountFirst(v, ready, body, mapAns, cntAns) ==
    LET loc == ImageLocal(v, ready, body) IN
    IF loc.raised # Absent
    THEN [calls |-> <<>>, resp |-> Absent, raised |-> loc.raised]
    ELSE LET c == CountStep(v, loc, TileUrl("pending"), <<>>, cntAns)
             m == MapIdStep(loc, mapAns)
         IN  IF m.raised # Absent
             THEN [calls |-> c.calls \o m.calls, resp |-> Absent, raised |-> m.raised]
             ELSE [calls |-> c.calls \o m.calls,
                   resp |-> Some(ImageSuccess(v, loc, m.tile_url[1],
                                              DictGet(cntAns, 0))),
                   raised |-> Absent]

\* what the try block does with the answers the remote calls give: the calls
\* made, in order, the response it returns or the exception it raises
ImageTry(v, ready, body, mapAns, cntAns) ==
    LET loc == ImageLocal(v, ready, body) IN
    IF loc.raised # Absent
    THEN [calls |-> <<>>, resp |-> Absent, raised |-> loc.raised]
    ELSE LET m == MapIdStep(loc, mapAns) IN
         IF m.raised # Absent
         THEN [calls |-> m.calls, resp |-> Absent, raised |-> m.raised]
         ELSE CountStep(v, loc, m.tile_url[1], m.calls, cntAns)

\* GET /api/regions (main.py): the except branch answers an empty list
RegionsError(e) == [ status |-> 200, body |-> [regions |-> <<>>] ]

ErrorResponse(handler, e) ==
    IF handler = "image" THEN ImageError(e) ELSE RegionsError(e)

\* try/except Exception of a handler: the response returned, or the
\* exception that leaves the handler when the clause does not catch it
Guarded(handler, t) ==
    IF t.raised = Absent
    THEN [calls |-> t.calls, resp |-> t.resp, raised |-> Absent, escaped |-> Absent]
    ELSE IF Catches("Exception", t.raised[1])
         THEN [calls |-> t.calls,
               resp |-> Some(ErrorResponse(handler, t.raised[1])),
               raised |-> t.raised, escaped |-> Absent]
         ELSE [calls |-> t.calls, resp |-> Absent,
               raised |-> t.raised, escaped |-> t.raised]

\* get_sentinel_image(), the whole handler
get_sentinel_image(v, ready, body, mapAns, cntAns) ==
    Guarded("image", ImageTry(v, ready, body, mapAns, cntAns))

RegionsAsset == "projects/ee-romantik1994/assets/region"

\* the try block of get_regions
RegionsTry(ready, regAns) ==
    IF ~ready
    THEN [calls |-> <<>>, resp |-> Absent,
          raised |-> Some(Exc("EEException",
                              "Earth Engine client library not initialized"))]
    ELSE LET c == Call("aggregate_array.getInfo", [fc |-> RegionsAsset,
                                                   property |-> "title"], regAns)
         IN  IF regAns = Absent
             THEN [calls |-> <<c>>, resp |-> Absent,
                   raised |-> Some(RemoteError("getInfo"))]
             ELSE [calls |-> <<c>>,
                   resp |-> Some([status |-> 200, body |-> [regions |-> regAns[1]]]),
                   raised |-> Absent]

\* get_regions with a fault: no except branch
RegionsPropagates(ready, regAns) ==
    LET t == RegionsTry(ready, regAns) IN
    [calls |-> t.calls, resp |-> t.resp, raised |-> t.raised, escaped |-> t.raised]

\* get_regions(), the whole handler
get_regions(ready, regAns) == Guarded("regions", RegionsTry(ready, regAns))

\* health_check(): app.py reports service name and timestamp too
health_check(v, flag, result, clock) ==
    IF v = "app"
    THEN [ status |-> 200,
           body |-> [ status |-> "healthy", service |-> "KrusGis Sentinel API",
                      gee_initialized |-> flag, timestamp |-> clock ] ]
    ELSE [ status |-> 200,
           body |-> [ status |-> "healthy", gee_initialized |-> flag ] ]

-----------------------------------------------------------------------------
(* Spec: one request at a time *)

NoOut == [calls |-> <<>>, resp |-> Absent, raised |-> Absent, escaped |-> Absent]

\* again: the exchange repeats the request of the exchange before it
NoExchange == [handler |-> "none", body |-> NoBody, out |-> NoOut, again |-> FALSE]

Repeats(handler, body) == last.handler = handler /\ last.body = body

NoLoc == [raised |-> Absent]

IdleWorker ==
    [pc |-> "idle", handler |-> "none", body |-> NoBody, loc |-> NoLoc,
     tile_url |-> Absent, calls |-> <<>>, out |-> NoOut, overlap |-> FALSE]

Init ==
    /\ variant \in {"app", "main"}
    /\ asScript \in BOOLEAN
    /\ gee_credentials \in CredentialKinds
    /\ phase = "boot"
    /\ initResult = "none"
    /\ ee_initialized = FALSE
    /\ last = NoExchange
    /\ workers = [w \in 1..NumWorkers |-> IdleWorker]

Ready == SessionReady(ee_initialized, gee_credentials)

\* what datetime.now() can return
Clock == 0..MaxClock

\* an answer is drawn for a remote call only when the call is made
MapIdAnswersFor(v, ready, body) ==
    IF ImageLocal(v, ready, body).raised = Absent THEN MapIdAnswers ELSE {Absent}

CountAnswersFor(mapAns) ==
    IF mapAns = Absent THEN {Absent} ELSE CountAnswers

\* HandleImage with a fault: the client library is reset when a request fails
HandleImageResetsOnError ==
    /\ phase = "serving"
    /\ \E body \in Requests :
       \E mapAns \in MapIdAnswersFor(variant, Ready, body) :
       \E cntAns \in CountAnswersFor(mapAns) :
         LET out == get_sentinel_image(variant, Ready, body, mapAns, cntAns) IN
         /\ last' = [handler |-> "image", body |-> body, out |-> out,
                     again |-> Repeats("image", body)]
         /\ ee_initialized' = (ee_initialized /\ out.raised = Absent)
    /\ UNCHANGED <<deployVars, phase, initResult, workers>>

\* POST /api/get_sentinel_image
HandleImage ==
    /\ phase = "serving"
    /\ \E body \in Requests :
       \E mapAns \in MapIdAnswersFor(variant, Ready, body) :
       \E cntAns \in CountAnswersFor(mapAns) :
         last' = [handler |-> "image", body |-> body,
                  out |-> get_sentinel_image(variant, Ready, body, mapAns, cntAns),
                  again |-> Repeats("image", body)]
    /\ UNCHANGED <<deployVars, procVars, workers>>

\* GET /api/regions, a route of main.py only
HandleRegions ==
    /\ phase = "serving"
    /\ variant = "main"
    /\ \E regAns \in RegionsAnswers :
         last' = [handler |-> "regions", body |-> NoBody,
                  out |-> get_regions(Ready, regAns),
                  again |-> Repeats("regions", NoBody)]
    /\ UNCHANGED <<deployVars, procVars, workers>>

\* GET /api/health (app.py), GET /health (main.py)
HandleHealth ==
    /\ phase = "serving"
    /\ \E clock \in Clock :
         last' = [handler |-> "health", body |-> NoBody,
                  out |-> [calls |-> <<>>,
                           resp |-> Some(health_check(variant, ee_initialized,
                                                      initResult, clock)),
                           raised |-> Absent, escaped |-> Absent],
                  again |-> Repeats("health", NoBody)]
    /\ UNCHANGED <<deployVars, procVars, workers>>

Next ==
    \/ app_module
    \/ main_module
    \/ HandleImage
    \/ HandleRegions
    \/ HandleHealth

Spec == Init /\ [][Next]_vars

-----------------------------------------------------------------------------
(* SpecConc: requests handled concurrently.  A handler runs without       *)
(* interruption between remote calls; while it waits for an answer the    *)
(* other threads run.  Its variables (loc, tile_url, calls) are locals of *)
(* the thread.                                                            *)

ConcGood ==
    [ json |-> TRUE, bounds |-> Some("box"), start_date |-> Some("2024-05-01"),
      end_date |-> Some("2024-06-01"), cloud_filter |-> Absent,
      smoothing |-> Absent, layer |-> Absent ]

\* the bodies sent concurrently: a default request, an NDVI request without
\* smoothing, a request without bounds
ConcRequests ==
    { ConcGood,
      [ConcGood EXCEPT !.layer = Some("NDVI"), !.smoothing = Some("false")],
      [ConcGood EXCEPT !.bounds = Absent] }

Threads == 1..NumWorkers

Lowest(S) == CHOOSE j \in S : \A k \in S : j <= k

\* LocOf with a fault: the locals kept in one module-level variable, which
\* the threads in progress share
SharedLoc(w) ==
    workers[Lowest({j \in Threads : workers[j].pc \in {"getMapId", "getInfo"}})].loc

\* the locals of thread w's handler
LocOf(w) == workers[w].loc

\* overlap: another thread was waiting for a remote answer when thread w
\* took its request
Waiting(w) == \E j \in Threads \ {w} : workers[j].pc \notin {"idle", "done"}

Finish(w, handler, body, out) ==
    [workers EXCEPT ![w] = [IdleWorker EXCEPT !.pc = "done", !.handler = handler,
                                              !.body = body, !.out = out,
                                              !.overlap = workers[w].overlap]]

\* a request arrives: the handler runs up to the getMapId call
ConcImageStart(w) ==
    /\ phase = "serving"
    /\ workers[w].pc = "idle"
    /\ \E body \in ConcRequests :
         LET loc == ImageLocal(variant, Ready, body) IN
         IF loc.raised # Absent
         THEN workers' = Finish(w, "image", body,
                  Guarded("image", [calls |-> <<>>, resp |-> Absent,
                                    raised |-> loc.raised]))
         ELSE workers' = [workers EXCEPT ![w] =
                  [IdleWorker EXCEPT !.pc = "getMapId", !.handler = "image",
                                     !.body = body, !.loc = loc,
                                     !.overlap = Waiting(w)]]
    /\ UNCHANGED <<deployVars, procVars, last>>

\* getMapId answers: the tile URL is built and the count query issued
ConcMapIdReturns(w) ==
    /\ workers[w].pc = "getMapId"
    /\ \E mapAns \in MapIdAnswers :
         LET m == MapIdStep(LocOf(w), mapAns) IN
         IF m.raised # Absent
         THEN workers' = Finish(w, "image", workers[w].body,
                  Guarded("image", [calls |-> m.calls, resp |-> Absent,
                                    raised |-> m.raised]))
         ELSE workers' = [workers EXCEPT ![w].pc = "getInfo",
                                         ![w].tile_url = m.tile_url,
                                         ![w].calls = m.calls]
    /\ UNCHANGED <<deployVars, procVars, last>>

\* the count query answers: the handler returns
ConcCountReturns(w) ==
    /\ workers[w].pc = "getInfo"
    /\ \E cntAns \in CountAnswers :
         workers' = Finish(w, "image", workers[w].body,
             Guarded("image", CountStep(variant, LocOf(w), workers[w].tile_url[1],
                                        workers[w].calls, cntAns)))
    /\ UNCHANGED <<deployVars, procVars, last>>

\* GET /api/regions arrives: the handler runs up to getInfo
ConcRegionsStart(w) ==
    /\ phase = "serving"
    /\ variant = "main"
    /\ workers[w].pc = "idle"
    /\ IF ~Ready
       THEN workers' = Finish(w, "regions", NoBody, get_regions(Ready, Absent))
       ELSE workers' = [workers EXCEPT ![w] =
                [IdleWorker EXCEPT !.pc = "regions", !.handler = "regions",
                                   !.overlap = Waiting(w)]]
    /\ UNCHANGED <<deployVars, procVars, last>>

ConcRegionsReturns(w) ==
    /\ workers[w].pc = "regions"
    /\ \E regAns \in RegionsAnswers :
         workers' = Finish(w, "regions", NoBody, get_regions(Ready, regAns))
    /\ UNCHANGED <<deployVars, procVars, last>>

\* the health check makes no remote call
ConcHealth(w) ==
    /\ phase = "serving"
    /\ workers[w].pc = "idle"
    /\ \E clock \in Clock :
         workers' = Finish(w, "health", NoBody,
             [calls |-> <<>>,
              resp |-> Some(health_check(variant, ee_initialized, initResult, clock)),
              raised |-> Absent, escaped |-> Absent])
    /\ UNCHANGED <<deployVars, procVars, last>>

\* the response is sent and the thread takes the next request
ConcRespond(w) ==
    /\ workers[w].pc = "done"
    /\ workers' = [workers EXCEPT ![w] = IdleWorker]
    /\ UNCHANGED <<deployVars, procVars, last>>

NextConc ==
    \/ app_module
    \/ main_module
    \/ \E w \in Threads : ConcImageStart(w)
    \/ \E w \in Threads : ConcMapIdReturns(w)
    \/ \E w \in Threads : ConcCountReturns(w)
    \/ \E w \in Threads : ConcRegionsStart(w)
    \/ \E w \in Threads : ConcRegionsReturns(w)
    \/ \E w \in Threads : ConcHealth(w)
    \/ \E w \in Threads : ConcRespond(w)

SpecConc == Init /\ [][NextConc]_vars

-----------------------------------------------------------------------------
(* Properties *)

Range(seq) == {seq[i] : i \in DOMAIN seq}

ImageHandled == last.handler = "image"

\* the body carries the three required fields
CarriesRequired(body) ==
    body.json /\ body.bounds # Absent /\ body.start_date # Absent
              /\ body.end_date # Absent

SupportedLayers == {"TRUE_COLOR", "FALSE_COLOR", "NDVI", "NDWI"}

LayerSupported(body) == body.layer = Absent \/ body.layer[1] \in SupportedLayers

\* both remote calls of the exchange were made and answered
BothCallsSucceeded(out) ==
    /\ Len(out.calls) = 2
    /\ out.calls[1].op = "getMapId" /\ out.calls[1].answer # Absent
    /\ out.calls[2].op = "size.getInfo" /\ out.calls[2].answer # Absent

IsSuccess(out) == out.resp # Absent /\ out.resp[1].body.success

\* C1: an image request that carries bounds, start_date and end_date and a
\* supported (or no) layer, and whose tile-identifier call and count query
\* both succeed, is answered success:true with a non-empty tile_url holding
\* the placeholders {z}, {x} and {y}, and with the count the query returned.
C1_SuccessResponse ==
    ( /\ ImageHandled
      /\ CarriesRequired(last.body)
      /\ LayerSupported(last.body)
      /\ BothCallsSucceeded(last.out) )
    => /\ last.out.escaped = Absent
       /\ last.out.resp # Absent
       /\ last.out.resp[1].status = 200
       /\ last.out.resp[1].body.success = TRUE
       /\ last.out.resp[1].body.tile_url # <<>>
       /\ {"{z}", "{x}", "{y}"} \subseteq Range(last.out.resp[1].body.tile_url)
       /\ last.out.calls[1].answer[1] \in Range(last.out.resp[1].body.tile_url)
       /\ last.out.resp[1].body.image_count = last.out.calls[2].answer[1]

C1_Witness ==
    /\ ImageHandled
    /\ CarriesRequired(last.body)
    /\ last.body.layer = Some("NDWI")
    /\ BothCallsSucceeded(last.out)
    /\ IsSuccess(last.out)
    /\ last.out.resp[1].body.image_count = 12

\* C2: whatever exception the image handler's try block raises (an
\* unparsable body, a missing bounds, start_date or end_date, a failed
\* getMapId or count query), none leaves the handler: the response is
\* success:false with the exception's message and status 500; and no request
\* that raised is answered success:true.
C2_ErrorsCaught ==
    ImageHandled =>
      /\ last.out.escaped = Absent
      /\ last.out.resp # Absent
      /\ last.out.raised # Absent =>
           last.out.resp[1] =
             [status |-> 500,
              body |-> [success |-> FALSE, error |-> last.out.raised[1].msg]]
      /\ ~CarriesRequired(last.body) =>
           /\ last.out.raised # Absent
           /\ last.out.resp[1].status = 500
           /\ ~last.out.resp[1].body.success
      /\ (\E i \in DOMAIN last.out.calls : last.out.calls[i].answer = Absent) =>
           /\ last.out.raised # Absent
           /\ ~last.out.resp[1].body.success
      /\ last.out.resp[1].body.success => last.out.raised = Absent

C2_Witness ==
    /\ ImageHandled
    /\ last.body.json
    /\ last.body.bounds = Absent
    /\ last.out.raised = Some(Exc("KeyError", "'bounds'"))
    /\ last.out.resp # Absent
    /\ last.out.resp[1].status = 500

\* C3: with a layer string that is no key of the lookup table the handler
\* uses the true-color configuration: getMapId is called with bands B4, B3,
\* B2, min 0,0,0, max 3000,3000,3000 and no palette, with the arguments of
\* the same request sent with layer TRUE_COLOR.
C3_FallbackTrueColor ==
    ( /\ ImageHandled
      /\ last.body.layer # Absent
      /\ last.body.layer[1] \notin SupportedLayers
      /\ last.out.calls # <<>> )
    => LET args == last.out.calls[1].args IN
       /\ last.out.calls[1].op = "getMapId"
       /\ args.bands = <<"B4", "B3", "B2">>
       /\ args.min = "0,0,0"
       /\ args.max = "3000,3000,3000"
       /\ "palette" \notin DOMAIN args
       /\ args = ImageLocal(variant, TRUE,
                    [last.body EXCEPT !.layer = Some("TRUE_COLOR")]).vis_params

C3_Witness ==
    /\ ImageHandled
    /\ variant = "app"
    /\ last.body.layer = Some("SWIR")
    /\ last.out.calls # <<>>
    /\ last.out.calls[1].args.bands = <<"B4", "B3", "B2">>
    /\ IsSuccess(last.out)

\* C4: the regions handler lets no exception out: when the remote query
\* fails the response is {regions: []} with status 200, and when it succeeds
\* the response is {regions: <the list the aggregation returned>}.
C4_RegionsNeverRaise ==
    last.handler = "regions" =>
      /\ last.out.escaped = Absent
      /\ last.out.resp # Absent
      /\ last.out.resp[1].status = 200
      /\ last.out.raised # Absent =>
           last.out.resp[1] = [status |-> 200, body |-> [regions |-> <<>>]]
      /\ (last.out.calls = <<>> \/ last.out.calls[1].answer = Absent) =>
           last.out.resp[1].body = [regions |-> <<>>]
      /\ (last.out.calls # <<>> /\ last.out.calls[1].answer # Absent) =>
           last.out.resp[1].body = [regions |-> last.out.calls[1].answer[1]]

C4_Witness ==
    /\ last.handler = "regions"
    /\ last.out.calls # <<>>
    /\ last.out.calls[1].answer = Absent
    /\ last.out.raised # Absent
    /\ last.out.resp = Some([status |-> 200, body |-> [regions |-> <<>>]])

\* C5: the gee_initialized value a health check reports is true exactly when
\* the last run of initialize_earth_engine returned True (false when it
\* returned False or never ran).
C5_HealthReflectsInitializer ==
    last.handler = "health" =>
      (last.out.resp[1].body.gee_initialized <=> (initResult = "ok"))

\* the call made at position i, without its answer
Request(out, i) == [op |-> out.calls[i].op, args |-> out.calls[i].args]

Answers(out) == [i \in DOMAIN out.calls |-> out.calls[i].answer]

\* Two exchanges of the same request made the same calls for as long as they
\* were given the same answers.
SameCalls(a, b) ==
    /\ (a.calls = <<>>) <=> (b.calls = <<>>)
    /\ \A i \in DOMAIN a.calls \cap DOMAIN b.calls :
         (\A j \in 1..(i-1) : a.calls[j].answer = b.calls[j].answer)
           => Request(a, i) = Request(b, i)
    /\ \A i \in DOMAIN a.calls \cap DOMAIN b.calls :
         (\A j \in 1..i : a.calls[j].answer = b.calls[j].answer)
           => ((i + 1) \in DOMAIN a.calls <=> (i + 1) \in DOMAIN b.calls)

\* a step that handles the request the exchange before it handled
RepeatedRequest ==
    /\ last.handler # "none"
    /\ last'.handler = last.handler
    /\ last'.body = last.body

\* no step taken while serving writes the state of the process
HandlersWriteNothing == phase = "serving" => UNCHANGED procVars

\* the health response of app.py without its timestamp
Untimed(h, resp) ==
    IF h = "health" /\ variant = "app"
    THEN Some([resp[1] EXCEPT !.body.timestamp = 0])
    ELSE resp

\* The statement of C6 as it stands: handlers write no process state, and a
\* request made again makes the same remote calls with the same arguments
\* and, given the same answers, gets the same response.
C6_IdempotentVerbatim ==
    [][ /\ HandlersWriteNothing
        /\ RepeatedRequest =>
             /\ SameCalls(last.out, last'.out)
             /\ Answers(last.out) = Answers(last'.out)
                  => last'.out.resp = last.out.resp ]_vars

\* C6 (amended): handlers write no process state, so the state while serving
\* is the state startup left; a request made again makes the same remote
\* calls with the same arguments and, given the same answers, gets the same
\* response, except for the timestamp in the health response of app.py.
C6_Idempotent ==
    [][ /\ HandlersWriteNothing
        /\ RepeatedRequest =>
             /\ SameCalls(last.out, last'.out)
             /\ Answers(last.out) = Answers(last'.out)
                  => Untimed(last.handler, last'.out.resp)
                       = Untimed(last.handler, last.out.resp) ]_vars

C6_Witness ==
    /\ last.again
    /\ ImageHandled
    /\ BothCallsSucceeded(last.out)
    /\ IsSuccess(last.out)

InitializerFailsOn == {"missing", "malformed", "no_email", "rejected"}

\* C7: the initializer returns False, without raising, when GEE_CREDENTIALS
\* is missing, malformed or rejected.  main.py run as a script serves only
\* after the initializer returned True, so it handles no request after a
\* failure; app.py serves whatever the initializer returned.
C7_StartupPolicy ==
    /\ phase # "crashed"
    /\ initResult # "none" =>
         ((initResult = "failed") <=> (gee_credentials \in InitializerFailsOn))
    /\ (variant = "main" /\ asScript /\ phase # "boot") =>
         /\ initResult # "none"
         /\ (phase = "serving") <=> (initResult = "ok")
         /\ initResult = "failed" => (phase = "exited" /\ last = NoExchange)
    /\ (variant = "app" /\ phase # "boot") =>
         (phase = "serving" /\ initResult # "none")

C7_Witness ==
    /\ variant = "app"
    /\ initResult = "failed"
    /\ gee_credentials = "malformed"
    /\ ImageHandled
    /\ ~IsSuccess(last.out)

Count(out, op) == Cardinality({i \in DOMAIN out.calls : out.calls[i].op = op})

\* C9: one image request makes at most one getMapId call and at most one
\* count query; the count query only after getMapId has answered; success is
\* returned only after both answered; a failure of either is the last call
\* of the request and is answered with the error response.
C9_NoRetry ==
    ImageHandled =>
      LET out == last.out IN
      /\ Count(out, "getMapId") <= 1
      /\ Count(out, "size.getInfo") <= 1
      /\ Len(out.calls) <= 2
      /\ \A i \in DOMAIN out.calls :
           out.calls[i].op = "size.getInfo" =>
             /\ i = 2
             /\ out.calls[1].op = "getMapId"
             /\ out.calls[1].answer # Absent
      /\ IsSuccess(out) => BothCallsSucceeded(out)
      /\ \A i \in DOMAIN out.calls :
           out.calls[i].answer = Absent =>
             /\ i = Len(out.calls)
             /\ out.resp # Absent
             /\ out.resp[1].status = 500
             /\ out.resp[1].body = [success |-> FALSE,
                                    error |-> out.raised[1].msg]

\* the tile identifier was obtained and the count query then failed
C9_Witness ==
    /\ ImageHandled
    /\ Len(last.out.calls) = 2
    /\ last.out.calls[1].answer # Absent
    /\ last.out.calls[2].answer = Absent
    /\ last.out.resp # Absent
    /\ ~last.out.resp[1].body.success

IndexTransforms == {"calculate_ndvi", "calculate_ndwi"}

\* C10: in app.py the transforms mapped over the collection fit the
\* configuration handed to getMapId: calculate_ndvi iff the NDVI
\* configuration is selected, calculate_ndwi iff the NDWI one, at most one of
\* them, none for true color, false color and the fallback; mask_clouds iff
\* smoothing is truthy (absent counts as true), and after the index
\* transform; so a single band named is a band the transforms add.
C10_TransformsMatchBands ==
    (ImageHandled /\ variant = "app" /\ last.out.calls # <<>>) =>
      LET args  == last.out.calls[1].args
          maps  == args.image.median.maps
          added == UNION {AddedBands(maps[i]) : i \in DOMAIN maps}
      IN
      /\ ("calculate_ndvi" \in Range(maps)) <=> (args.bands = <<"NDVI">>)
      /\ ("calculate_ndwi" \in Range(maps)) <=> (args.bands = <<"NDWI">>)
      /\ Cardinality({i \in DOMAIN maps : maps[i] \in IndexTransforms}) <= 1
      /\ args.bands \in {<<"B4", "B3", "B2">>, <<"B8", "B4", "B3">>}
           => Range(maps) \cap IndexTransforms = {}
      /\ ("mask_clouds" \in Range(maps))
           <=> Truthy(DictGet(last.body.smoothing, "true"))
      /\ Cardinality({i \in DOMAIN maps : maps[i] = "mask_clouds"}) <= 1
      /\ \A i, j \in DOMAIN maps :
           (maps[i] = "mask_clouds" /\ maps[j] \in IndexTransforms) => j < i
      /\ Len(args.bands) = 1 => args.bands[1] \in added
      /\ Range(args.bands) \subseteq SourceBands \cup added

C10_Witness ==
    /\ ImageHandled
    /\ variant = "app"
    /\ last.out.calls # <<>>
    /\ last.out.calls[1].args.image.median.maps = <<"calculate_ndvi", "mask_clouds">>
    /\ last.out.calls[1].args.bands = <<"NDVI">>

AnswerAt(calls, i) == IF i \in DOMAIN calls THEN calls[i].answer ELSE Absent

\* the outcome of thread w's request had it been handled with no other
\* request in progress, given the answers it was given
HandledAlone(w) ==
    LET me == workers[w] IN
    CASE me.handler = "image" ->
           get_sentinel_image(variant, Ready, me.body,
                              AnswerAt(me.out.calls, 1), AnswerAt(me.out.calls, 2))
      [] me.handler = "regions" ->
           get_regions(Ready, AnswerAt(me.out.calls, 1))
      [] OTHER ->
           [calls |-> <<>>,
            resp |-> Some(health_check(variant, ee_initialized, initResult,
                            IF variant = "app"
                            THEN me.out.resp[1].body.timestamp ELSE 0)),
            raised |-> Absent, escaped |-> Absent]

\* C8: ee.data._initialized is written by startup only, never while
\* requests are served; and however the steps of concurrent requests
\* interleave, each request gets the response it would get handled alone.
C8_Independent ==
    /\ [](\A w \in Threads :
            workers[w].pc = "done" => workers[w].out = HandledAlone(w))
    /\ [][ee_initialized' # ee_initialized => phase = "boot"]_vars

\* thread 2 took an NDVI request while thread 1 was waiting for an answer to
\* a different request, and both were answered success
C8_Witness ==
    /\ workers[2].pc = "done"
    /\ workers[2].overlap
    /\ workers[2].handler = "image"
    /\ workers[2].body.layer = Some("NDVI")
    /\ IsSuccess(workers[2].out)
    /\ workers[1].pc = "done"
    /\ workers[1].handler = "image"
    /\ workers[1].body.layer = Absent
    /\ IsSuccess(workers[1].out)

=============================================================================
